---- MODULE Spec2Model ----
(***************************************************************************)
(* The MBC1 memory bank controller of src/cartridge/MBC1.go: the bus       *)
(* interface (Read, Write), the bank/mode registers and the battery RAM    *)
(* persistence (SaveRam, LoadRam).                                         *)
(*                                                                         *)
(* Go values are modelled as follows.                                      *)
(*   - A byte array is a record [len, nz]: its length and the function     *)
(*     from the positions holding a nonzero byte to that byte (every other *)
(*     position holds 0x00).                                               *)
(*   - A []byte slice is a record [arr, lo, len]: the backing array it     *)
(*     views (a key of heap), the position of its first byte there and its *)
(*     length.  Indexing a slice at i >= len is a run-time panic.          *)
(*   - The ROM image is never written; it is a record [len, img] whose     *)
(*     byte at position i is RomByte(img, i).  The slices of it            *)
(*     (romBank0, romBanks[i]) are records [lo, len].                      *)
(*   - Go indexes from 0, TLA+ sequences from 1: Go's romBanks[b] is       *)
(*     m.romBanks[b + 1] here.                                             *)
(***************************************************************************)
EXTENDS Integers, Sequences, FiniteSets, TLC

VARIABLES
    m,      \* the *MBC1 object: a record of the struct's fields
    heap,   \* the byte arrays backing m.ramBanks: array id -> byte array
    disk,   \* the RAM save file: [exists, data]
    saved,  \* history: the RAM bank contents written by the last complete SaveRam
    call    \* the last call made on the controller and what it returned

vars == <<m, heap, disk, saved, call>>

(***************************************************************************)
(* Program constants                                                       *)
(***************************************************************************)
ROMBankSize == 16384        \* 0x4000
RAMBankSize == 8192         \* 0x2000
RAMFileSize == 32768        \* 0x8000
NumRAMBanks == 4
WordModulus == 65536        \* types.Word is 16 bits wide
ByteModulus == 256

SIXTEENMB_ROM_8KBRAM == "SIXTEENMB_ROM_8KBRAM"
FOURMB_ROM_32KBRAM == "FOURMB_ROM_32KBRAM"

(***************************************************************************)
(* Bounds of the model                                                     *)
(***************************************************************************)
MaxDirty == 1               \* the bus specification keeps at most MaxDirty nonzero RAM bytes

\* a & b on non-negative integers
RECURSIVE BitAnd(_, _)
BitAnd(a, b) ==
    IF a = 0 \/ b = 0 THEN 0
    ELSE (a % 2) * (b % 2) + 2 * BitAnd(a \div 2, b \div 2)

(***************************************************************************)
(* Byte arrays and slices                                                  *)
(***************************************************************************)
\* make([]byte, n): n zero bytes
ZeroArray(n) == [len |-> n, nz |-> [j \in {} |-> 0]]

\* a[i], for i < a.len
ArrayGet(a, i) == IF i \in DOMAIN a.nz THEN a.nz[i] ELSE 0

\* a[i] = v, for i < a.len
ArraySet(a, i, v) ==
    [a EXCEPT !.nz =
        IF v = 0
        THEN [j \in (DOMAIN a.nz) \ {i} |-> a.nz[j]]
        ELSE [j \in (DOMAIN a.nz) \cup {i} |-> IF j = i THEN v ELSE a.nz[j]]]

\* a[lo:hi] copied out as an array of its own
ArrayCut(a, lo, hi) ==
    [len |-> hi - lo,
     nz  |-> [j \in {k - lo : k \in {k \in DOMAIN a.nz : lo <= k /\ k < hi}}
                 |-> a.nz[j + lo]]]

\* the bytes of a followed by the bytes of b
ArrayAppend(a, b) ==
    [len |-> a.len + b.len,
     nz  |-> [j \in (DOMAIN a.nz) \cup {k + a.len : k \in DOMAIN b.nz}
                 |-> IF j < a.len THEN a.nz[j] ELSE b.nz[j - a.len]]]

\* i is a valid index of slice s (Go panics otherwise)
InRange(s, i) == 0 <= i /\ i < s.len

\* s[i] for a slice s of a heap array
SliceGet(h, s, i) == ArrayGet(h[s.arr], s.lo + i)

\* the heap after s[i] = v
SliceSet(h, s, i, v) == [h EXCEPT ![s.arr] = ArraySet(@, s.lo + i, v)]

\* the bytes a slice holds, as an array of its own
SliceBytes(h, s) == ArrayCut(h[s.arr], s.lo, s.lo + s.len)

(***************************************************************************)
(* The ROM image                                                           *)
(***************************************************************************)
\* byte i of ROM image number img: differs from bank to bank and from
\* offset to offset
RomByte(img, i) == (i * (img + 1) + (i \div ROMBankSize) * 7 + img) % ByteModulus

\* s[i] for a slice s of the ROM image rom
RomSliceGet(rom, s, i) == RomByte(rom.img, s.lo + i)

\* populateROMBanks(rom, n): n consecutive 16 KiB slices of the image
populateROMBanks(rom, n) ==
    [i \in 1..n |-> [lo |-> (i - 1) * ROMBankSize, len |-> ROMBankSize]]

\* populateRAMBanks(n): n slices, each a fresh zeroed 8 KiB array (ids 1..n)
populateRAMBanks(n) ==
    [i \in 1..n |-> [arr |-> i, lo |-> 0, len |-> RAMBankSize]]

populateRAMHeap(n) == [i \in 1..n |-> ZeroArray(RAMBankSize)]

NoHeap == [i \in {} |-> ZeroArray(0)]

(***************************************************************************)
(* NewMBC1                                                                 *)
(***************************************************************************)
\* the controller constructed with the RAM gate closed
NewMBC1_GateClosed(rom, romSize, ramSize, hasBattery) ==
    [rom             |-> rom,
     MaxMemMode      |-> SIXTEENMB_ROM_8KBRAM,
     hasBattery      |-> hasBattery,
     ROMSize         |-> romSize,
     RAMSize         |-> ramSize,
     hasRAM          |-> ramSize > 0,
     ramEnabled      |-> FALSE,
     selectedRAMBank |-> 0,
     ramBanks        |-> IF ramSize > 0 THEN populateRAMBanks(NumRAMBanks) ELSE << >>,
     selectedROMBank |-> 0,
     romBank0        |-> [lo |-> 0, len |-> ROMBankSize],
     romBanks        |-> populateROMBanks(rom, romSize \div ROMBankSize)]

NewMBC1(rom, romSize, ramSize, hasBattery) ==
    [rom             |-> rom,
     MaxMemMode      |-> SIXTEENMB_ROM_8KBRAM,
     hasBattery      |-> hasBattery,
     ROMSize         |-> romSize,
     RAMSize         |-> ramSize,
     hasRAM          |-> ramSize > 0,
     ramEnabled      |-> ramSize > 0,
     selectedRAMBank |-> 0,
     ramBanks        |-> IF ramSize > 0 THEN populateRAMBanks(NumRAMBanks) ELSE << >>,
     selectedROMBank |-> 0,
     romBank0        |-> [lo |-> 0, len |-> ROMBankSize],
     romBanks        |-> populateROMBanks(rom, romSize \div ROMBankSize)]

\* the arrays NewMBC1 allocates
NewHeap(ramSize) == IF ramSize > 0 THEN populateRAMHeap(NumRAMBanks) ELSE NoHeap

\* what a call leaves behind: op, the address of a Read, the byte a Read
\* returned, whether the call panicked, and the error of SaveRam/LoadRam
Returned(op, addr, val, panic, err) ==
    [op |-> op, addr |-> addr, val |-> val, panic |-> panic, err |-> err]

NoFile == [exists |-> FALSE, data |-> ZeroArray(0)]

\* a panic is not recovered: the process is gone
Running == ~call.panic

(***************************************************************************)
(* Write                                                                   *)
(***************************************************************************)
\* value == 0x0A, the comparison without the mask
EnablesRAM_NoMask(value) == value = 10

\* value&0x0F == 0x0A
EnablesRAM(value) == BitAnd(value, 15) = 10

\* the ROM bank switch resetting the RAM bank selector
switchROMBank_ClearsRAMBank(mbc, bank) ==
    [mbc EXCEPT !.selectedROMBank = bank, !.selectedRAMBank = 0]

switchROMBank(mbc, bank) == [mbc EXCEPT !.selectedROMBank = bank]

\* the RAM bank selector latched in 4/32 mode only
switchRAMBank_OnlyIn432(mbc, bank) ==
    IF mbc.MaxMemMode = FOURMB_ROM_32KBRAM
    THEN [mbc EXCEPT !.selectedRAMBank = bank]
    ELSE mbc

switchRAMBank(mbc, bank) == [mbc EXCEPT !.selectedRAMBank = bank]

\* the gate write honoured in either mode
GateHonoured_AnyMode(mbc) == mbc.hasRAM

\* the gate write honoured without RAM
GateHonoured_NoRAMCheck(mbc) == mbc.MaxMemMode = FOURMB_ROM_32KBRAM

\* m.MaxMemMode == constants.FOURMB_ROM_32KBRAM && m.hasRAM
GateHonoured(mbc) == mbc.MaxMemMode = FOURMB_ROM_32KBRAM /\ mbc.hasRAM

\* value&0x01 selects the mode
SelectedMode(value) ==
    IF BitAnd(value, 1) = 0 THEN SIXTEENMB_ROM_8KBRAM ELSE FOURMB_ROM_32KBRAM

\* m.hasRAM alone, the guard without the gate
RAMWritable_NoGate(mbc) == mbc.hasRAM

\* m.hasRAM && m.ramEnabled, the guard of the RAM write
RAMWritable(mbc) == mbc.hasRAM /\ mbc.ramEnabled

\* the Go index of the RAM bank a write goes to (the switch on MaxMemMode)
WriteRAMBank(mbc) ==
    IF mbc.MaxMemMode = FOURMB_ROM_32KBRAM THEN mbc.selectedRAMBank ELSE 0

\* the heap after the RAM write of Write, or the panic of a bad index
WriteRAM(mbc, h, addr, value) ==
    LET b == WriteRAMBank(mbc)
        o == (addr - 40960) % WordModulus
    IN  IF b + 1 \in DOMAIN mbc.ramBanks /\ InRange(mbc.ramBanks[b + 1], o)
        THEN [panic |-> FALSE, heap |-> SliceSet(h, mbc.ramBanks[b + 1], o, value)]
        ELSE [panic |-> TRUE, heap |-> h]

\* Write(addr, value) in the state (mbc, h): the controller and the heap it
\* leaves, and whether it panicked
Wrote(mbc, h, panic) == [m |-> mbc, heap |-> h, panic |-> panic]

WriteMBC1(mbc, h, addr, value) ==
    CASE addr >= 0 /\ addr <= 8191 ->
            IF GateHonoured(mbc)
            THEN Wrote([mbc EXCEPT !.ramEnabled = EnablesRAM(value)], h, FALSE)
            ELSE Wrote(mbc, h, FALSE)
      [] addr >= 8192 /\ addr <= 16383 ->
            Wrote(switchROMBank(mbc, BitAnd(value, 31)), h, FALSE)
      [] addr >= 16384 /\ addr <= 24575 ->
            Wrote(switchRAMBank(mbc, BitAnd(value, 3)), h, FALSE)
      [] addr >= 24576 /\ addr <= 32767 ->
            Wrote([mbc EXCEPT !.MaxMemMode = SelectedMode(value)], h, FALSE)
      [] addr >= 40960 /\ addr <= 49151 ->
            IF RAMWritable(mbc)
            THEN LET w == WriteRAM(mbc, h, addr, value)
                 IN  Wrote(mbc, w.heap, w.panic)
            ELSE Wrote(mbc, h, FALSE)
      [] OTHER -> Wrote(mbc, h, FALSE)

Write(addr, value) ==
    /\ Running
    /\ LET w == WriteMBC1(m, heap, addr, value)
       IN  /\ m' = w.m
           /\ heap' = w.heap
           /\ call' = Returned("Write", 0, 0, w.panic, "nil")
    /\ UNCHANGED <<disk, saved>>

(***************************************************************************)
(* Read                                                                    *)
(***************************************************************************)
Byte(v) == [val |-> v, panic |-> FALSE]
IndexPanic == [val |-> 0, panic |-> TRUE]

\* m.romBanks[m.selectedROMBank][addr], bank 0 following the selector
ReadROMBank0_Switched(mbc, addr) ==
    LET b == mbc.selectedROMBank
    IN  IF b + 1 \in DOMAIN mbc.romBanks /\ InRange(mbc.romBanks[b + 1], addr)
        THEN [val |-> RomSliceGet(mbc.rom, mbc.romBanks[b + 1], addr), panic |-> FALSE]
        ELSE [val |-> 0, panic |-> TRUE]

\* m.romBank0[addr]
ReadROMBank0(mbc, addr) ==
    IF InRange(mbc.romBank0, addr)
    THEN Byte(RomSliceGet(mbc.rom, mbc.romBank0, addr))
    ELSE IndexPanic

\* m.romBanks[m.selectedROMBank][addr-0x4000]
ReadROMBank(mbc, addr) ==
    LET b == mbc.selectedROMBank
        o == (addr - 16384) % WordModulus
    IN  IF b + 1 \in DOMAIN mbc.romBanks /\ InRange(mbc.romBanks[b + 1], o)
        THEN Byte(RomSliceGet(mbc.rom, mbc.romBanks[b + 1], o))
        ELSE IndexPanic

\* the selected bank in either mode
ReadRAMBank_AnyMode(mbc) == mbc.selectedRAMBank

\* the Go index of the RAM bank a read comes from (the switch on MaxMemMode)
ReadRAMBank(mbc) ==
    IF mbc.MaxMemMode = FOURMB_ROM_32KBRAM THEN mbc.selectedRAMBank ELSE 0

\* m.ramBanks[...][addr-0xA000]
ReadRAM(mbc, h, addr) ==
    LET b == ReadRAMBank(mbc)
        o == (addr - 40960) % WordModulus
    IN  IF b + 1 \in DOMAIN mbc.ramBanks /\ InRange(mbc.ramBanks[b + 1], o)
        THEN Byte(SliceGet(h, mbc.ramBanks[b + 1], o))
        ELSE IndexPanic

\* the window without its upper end
InReadRAMWindow_NoUpperEnd(addr) == addr >= 40960

\* addr >= 0xA000 && addr <= 0xC000
InReadRAMWindow(addr) == addr >= 40960 /\ addr <= 49152

\* m.hasRAM && m.ramEnabled, the guard of the RAM read
RAMReadable(mbc) == mbc.hasRAM /\ mbc.ramEnabled

\* what Read(addr) returns in the state (mbc, h): a byte, or a panic
ReadMBC1(mbc, h, addr) ==
    IF addr < 16384 THEN ReadROMBank0(mbc, addr)
    ELSE IF addr >= 16384 /\ addr < 32768 THEN ReadROMBank(mbc, addr)
    ELSE IF InReadRAMWindow(addr) /\ RAMReadable(mbc)
         THEN ReadRAM(mbc, h, addr)
    ELSE Byte(0)

\* a Read that also puts the ROM bank selector back to 0
Read_ResetsROMBank(addr) ==
    /\ ~call.panic
    /\ call' = [op |-> "Read", addr |-> addr, val |-> 0, panic |-> FALSE, err |-> "nil"]
    /\ m' = [m EXCEPT !.selectedROMBank = 0]
    /\ UNCHANGED <<heap, disk, saved>>

Read(addr) ==
    /\ Running
    /\ LET r == ReadMBC1(m, heap, addr)
       IN  call' = Returned("Read", addr, r.val, r.panic, "nil")
    /\ UNCHANGED <<m, heap, disk, saved>>

(***************************************************************************)
(* SaveRam                                                                 *)
(***************************************************************************)
\* the banks from the last to the first
RECURSIVE BanksImage_Reversed(_, _, _)
BanksImage_Reversed(mbc, h, n) ==
    IF n = 0 THEN ZeroArray(0)
    ELSE ArrayAppend(SliceBytes(h, mbc.ramBanks[n]), BanksImage_Reversed(mbc, h, n - 1))

\* the bytes of banks 1..n of mbc.ramBanks, one after the other
RECURSIVE BanksImage(_, _, _)
BanksImage(mbc, h, n) ==
    IF n = 0 THEN ZeroArray(0)
    ELSE ArrayAppend(BanksImage(mbc, h, n - 1), SliceBytes(h, mbc.ramBanks[n]))

\* the bytes each RAM bank holds, bank by bank
BankContents(mbc, h) == [i \in DOMAIN mbc.ramBanks |-> SliceBytes(h, mbc.ramBanks[i])]

\* The storage either works (at = "none"), fails in os.Create (at = "create"),
\* or fails in the write of Go bank `bank` after n of its bytes reached the
\* file (at = "write").  Every bank is larger than the bufio buffer, so each
\* writer.Write goes straight to the file; after a failed one the writer
\* writes nothing more.  The results of writer.Write and writer.Flush are
\* dropped.
NoFailure == [at |-> "none", bank |-> 0, n |-> 0]

\* the file a SaveRam leaves behind under storage behaviour f
SavedFile(mbc, h, f) ==
    IF f.at = "none"
    THEN [exists |-> TRUE, data |-> BanksImage(mbc, h, Len(mbc.ramBanks))]
    ELSE [exists |-> TRUE,
          data   |-> ArrayAppend(BanksImage(mbc, h, f.bank),
                                 ArrayCut(SliceBytes(h, mbc.ramBanks[f.bank + 1]), 0, f.n))]

\* the guard without the battery
SavesRAM_NoBatteryCheck(mbc) == mbc.hasRAM

\* m.hasRAM && m.hasBattery, the guard of SaveRam
SavesRAM(mbc) == mbc.hasRAM /\ mbc.hasBattery

\* SaveRam under storage behaviour f with the file as it is in `file`: the
\* file it leaves and the error it returns
SaveRamMBC1(mbc, h, file, f) ==
    IF SavesRAM(mbc)
    THEN IF f.at = "create"
         THEN [file |-> file, err |-> "create failed"]
         ELSE [file |-> SavedFile(mbc, h, f), err |-> "nil"]
    ELSE [file |-> file, err |-> "nil"]

SaveRam(f) ==
    /\ Running
    /\ UNCHANGED <<m, heap>>
    /\ LET s == SaveRamMBC1(m, heap, disk, f)
       IN  /\ disk' = s.file
           /\ call' = Returned("SaveRam", 0, 0, FALSE, s.err)
    /\ saved' = IF SavesRAM(m) /\ f.at # "create"
                THEN (IF f.at = "none" THEN BankContents(m, heap) ELSE << >>)
                ELSE saved

(***************************************************************************)
(* LoadRam                                                                 *)
(***************************************************************************)
\* the value of chunk when bank i (from 0) is populated: a types.Word
Chunk(i) == (i * RAMBankSize) % WordModulus

\* every bank cut at chunk 0 (chunk never advanced)
FileChunk_NotAdvanced(i) == [arr |-> 0, lo |-> 0, len |-> 8192]

\* fileBytes[chunk : chunk+0x2000] for bank i, a slice of array 0
FileChunk(i) ==
    [arr |-> 0, lo |-> Chunk(i), len |-> ((Chunk(i) + RAMBankSize) % WordModulus) - Chunk(i)]

\* the slice expression is in range of a file of n bytes
ChunkInRange(i, n) ==
    /\ Chunk(i) <= (Chunk(i) + RAMBankSize) % WordModulus
    /\ (Chunk(i) + RAMBankSize) % WordModulus <= n

\* only a longer file refused
WrongLength_OnlyLonger(file) == file.data.len > 32768

\* len(fileBytes) != 0x8000
WrongLength(file) == file.data.len # RAMFileSize

\* m.hasRAM && m.hasBattery, the guard of LoadRam
LoadsRAM(mbc) == mbc.hasRAM /\ mbc.hasBattery

\* a missing file reported like any other failure
ReadFailure_MissingIsError(file, ioError) ==
    IF ~file.exists THEN [failed |-> TRUE, err |-> "file does not exist"]
    ELSE IF ioError THEN [failed |-> TRUE, err |-> "read failed"]
    ELSE [failed |-> FALSE, err |-> "nil"]

\* the err != nil branch after ioutil.ReadFile: whether LoadRam returns
\* there, and with which error (nil for a file that does not exist)
ReadFailure(file, ioError) ==
    IF ~file.exists THEN [failed |-> TRUE, err |-> "nil"]
    ELSE IF ioError THEN [failed |-> TRUE, err |-> "read failed"]
    ELSE [failed |-> FALSE, err |-> "nil"]

\* LoadRam of `file` in the state (mbc, h), where ioError says that
\* ioutil.ReadFile fails on an existing file: the controller and the heap it
\* leaves, the error it returns, and whether it panicked
Loaded(mbc, h, err, panic) == [m |-> mbc, heap |-> h, err |-> err, panic |-> panic]

LoadRamMBC1(mbc, h, file, ioError) ==
    IF LoadsRAM(mbc)
    THEN IF ReadFailure(file, ioError).failed
         THEN Loaded(mbc, h, ReadFailure(file, ioError).err, FALSE)
         ELSE IF WrongLength(file)
              THEN Loaded(mbc, h, "RAM file is not 32768 bytes!", FALSE)
         ELSE IF \A i \in 0..3 :
                     i + 1 \in DOMAIN mbc.ramBanks /\ ChunkInRange(i, file.data.len)
              THEN Loaded([mbc EXCEPT !.ramBanks = [i \in 1..4 |-> FileChunk(i - 1)]],
                          [a \in {0} |-> file.data], "nil", FALSE)
         ELSE Loaded(mbc, h, "nil", TRUE)
    ELSE Loaded(mbc, h, "nil", FALSE)

LoadRam(file, ioError) ==
    /\ Running
    /\ LET l == LoadRamMBC1(m, heap, file, ioError)
       IN  /\ m' = l.m
           /\ heap' = l.heap
           /\ call' = Returned("LoadRam", 0, 0, l.panic, l.err)
    /\ UNCHANGED <<disk, saved>>

\* the emulator is started again on the same cartridge: NewMBC1 builds a
\* fresh controller; the save file stays
Restart ==
    /\ m' = NewMBC1(m.rom, m.ROMSize, m.RAMSize, m.hasBattery)
    /\ heap' = NewHeap(m.RAMSize)
    /\ call' = Returned("NewMBC1", 0, 0, FALSE, "nil")
    /\ UNCHANGED <<disk, saved>>

(***************************************************************************)
(* The bus specification: a controller of any configuration, driven by     *)
(* reads and writes at the edges of every address window.                  *)
(***************************************************************************)
\* the cartridges tried: a 32 KiB ROM (2 banks) and a 512 KiB ROM (32 banks)
Cartridges ==
    {[len |-> 2 * ROMBankSize, img |-> 0], [len |-> 32 * ROMBankSize, img |-> 1]}
RamSizes == {0, NumRAMBanks * RAMBankSize}

\* 0x0000 0x1FFF 0x2000 0x3FFF 0x4000 0x5FFF 0x6000 0x7FFF 0x8000 0x9FFF
\* 0xA000 0xBFFF 0xC000 0xFFFF
WriteAddrs == {0, 8191, 8192, 16383, 16384, 24575, 24576, 32767, 32768, 40959,
               40960, 49151, 49152, 65535}
\* 0x0000 0x3FFF 0x4000 0x7FFF 0x8000 0x9FFF 0xA000 0xA010 0xBFFF 0xC000
\* 0xC001 0xFFFF
ReadAddrs == {0, 16383, 16384, 32767, 32768, 40959, 40960, 40976, 49151, 49152,
              49153, 65535}

GateValues == {0, 10, 58, 171}      \* 0x00 0x0A 0x3A 0xAB
ROMBankValues == {1, 171, 255}      \* 0x01 0xAB 0xFF
RAMBankValues == {0, 1, 10, 171}    \* 0x00 0x01 0x0A 0xAB
ModeValues == {10, 171}             \* 0x0A 0xAB
DataValues == {0, 171}              \* 0x00 0xAB

\* the values written to an address
ValuesFor(addr) ==
    IF addr <= 8191 THEN GateValues
    ELSE IF addr <= 16383 THEN ROMBankValues
    ELSE IF addr <= 24575 THEN RAMBankValues
    ELSE IF addr <= 32767 THEN ModeValues
    ELSE DataValues

\* the number of nonzero bytes of the arrays of h
Dirty(h) == Cardinality(UNION {{<<a, j>> : j \in DOMAIN h[a].nz} : a \in DOMAIN h})

Init ==
    /\ \E rom \in Cartridges, ramSize \in RamSizes :
          /\ m = NewMBC1(rom, rom.len, ramSize, TRUE)
          /\ heap = NewHeap(ramSize)
    /\ disk = NoFile
    /\ saved = << >>
    /\ call = Returned("NewMBC1", 0, 0, FALSE, "nil")

Next ==
    \/ \E addr \in WriteAddrs : \E value \in ValuesFor(addr) :
          /\ Write(addr, value)
          /\ Dirty(heap') <= MaxDirty
    \/ \E addr \in ReadAddrs : Read(addr)

Spec == Init /\ [][Next]_vars

(***************************************************************************)
(* The battery specification: a small cartridge, with or without RAM and   *)
(* battery, driven by writes, reads, saves, loads and restarts.  The       *)
(* storage may fail; a load may be given the save file, a missing file or  *)
(* a file that is no save.                                                 *)
(***************************************************************************)
\* 0x0000 0x2000 0x4000 0x6000 0xA010 0xC000
BatteryWriteAddrs == {0, 8192, 16384, 24576, 40976, 49152}
\* 0x0000 0x4000 0xA000 0xA010 0xC000
BatteryReadAddrs == {0, 16384, 40960, 40976, 49152}
\* 0x0A 0xAB
BatteryRegValues == {10, 171}

\* a 100-byte file holding 0xAB at position 0x10
ShortFile == [exists |-> TRUE, data |-> ArraySet(ZeroArray(100), 16, 171)]

\* no failure; os.Create fails; the write of bank 0 fails after 100 bytes;
\* the write of bank 2 fails at once
SaveFailures ==
    {NoFailure,
     [at |-> "create", bank |-> 0, n |-> 0],
     [at |-> "write", bank |-> 0, n |-> 100],
     [at |-> "write", bank |-> 2, n |-> 0]}

InitBattery ==
    /\ \E ramSize \in RamSizes, battery \in BOOLEAN :
          /\ m = NewMBC1([len |-> 2 * ROMBankSize, img |-> 0], 2 * ROMBankSize,
                         ramSize, battery)
          /\ heap = NewHeap(ramSize)
    /\ disk = NoFile
    /\ saved = << >>
    /\ call = Returned("NewMBC1", 0, 0, FALSE, "nil")

NextBattery ==
    \/ \E addr \in BatteryWriteAddrs :
          \E value \in (IF addr <= 32767 THEN BatteryRegValues ELSE DataValues) :
             Write(addr, value)
    \/ \E addr \in BatteryReadAddrs : Read(addr)
    \/ \E f \in SaveFailures : SaveRam(f)
    \/ \E file \in {disk, NoFile, ShortFile}, ioError \in BOOLEAN : LoadRam(file, ioError)
    \/ Restart

SpecBattery == InitBattery /\ [][NextBattery]_vars

(***************************************************************************)
(* The claims                                                              *)
(***************************************************************************)
\* byte o of Go RAM bank b
RAMByte(mbc, h, b, o) == SliceGet(h, mbc.ramBanks[b + 1], o)

\* byte o of Go ROM bank b of the image
ROMBankByte(mbc, b, o) == RomByte(mbc.rom.img, b * 16384 + o)

RAMOn == m.hasRAM /\ m.ramEnabled

\* 0xA000 0xA010 0xBFFF
RAMAddrs == {40960, 40976, 49151}

\* C1: Read returns a byte and never aborts, for every address and every
\* state reachable by writes; in particular at 0xC000 with RAM on.
C1_ReadNeverPanics ==
    call.op = "Read" => ~call.panic

\* C2: selectedROMBank is a valid index of romBanks and, with RAM present,
\* selectedRAMBank is a valid index of ramBanks, for every ROM size.
C2_SelectorsInBounds ==
    /\ 0 <= m.selectedROMBank /\ m.selectedROMBank < Len(m.romBanks)
    /\ Len(m.romBanks) = m.ROMSize \div 16384
    /\ m.hasRAM => 0 <= m.selectedRAMBank /\ m.selectedRAMBank < Len(m.ramBanks)
    /\ m.hasRAM => Len(m.ramBanks) = 4

\* C3: after a write of v to 0x2000..0x3FFF, a read of a in 0x4000..0x7FFF
\* returns romBanks[v & 0x1F][a - 0x4000], and a write elsewhere does not
\* change the bank such a read comes from.
C3_ROMBankSelect ==
    /\ \A x \in {8192, 16383} : \A v \in ROMBankValues :
          WriteMBC1(m, heap, x, v).m.selectedROMBank = v % 32
    /\ \A x \in WriteAddrs \ {8192, 16383} : \A v \in ValuesFor(x) :
          WriteMBC1(m, heap, x, v).m.selectedROMBank = m.selectedROMBank
    /\ ( /\ call.op = "Read" /\ call.addr >= 16384 /\ call.addr <= 32767
         /\ m.selectedROMBank \in {v % 32 : v \in ROMBankValues} )
       => /\ ~call.panic
          /\ call.val = ROMBankByte(m, m.selectedROMBank, call.addr - 16384)

\* C4: in every state reached by writes, saves and loads, a read below
\* 0x4000 returns that byte of the ROM image the controller was built on.
C4_Bank0Fixed ==
    /\ \A a \in {0, 16, 16383} : ReadMBC1(m, heap, a) = Byte(RomByte(m.rom.img, a))
    /\ (call.op = "Read" /\ call.addr < 16384) =>
          ~call.panic /\ call.val = RomByte(m.rom.img, call.addr)

\* C4 witness: bank 0 was read after the ROM bank, the RAM bank and the mode
\* were switched and the RAM was loaded from a save
C4_Witness ==
    /\ call.op = "Read" /\ call.addr = 0
    /\ m.selectedROMBank # 0 /\ m.selectedRAMBank # 0
    /\ m.MaxMemMode = FOURMB_ROM_32KBRAM
    /\ m.hasRAM /\ m.ramBanks[1].arr = 0

\* C5: in 16 MB ROM / 8 KB RAM mode with RAM on, every read and write in
\* 0xA000..0xBFFF goes to RAM bank 0 at address - 0xA000 whatever
\* selectedRAMBank is, and a write to 0x4000..0x5FFF changes no RAM read.
C5_Mode168UsesBank0 ==
    (RAMOn /\ m.MaxMemMode = SIXTEENMB_ROM_8KBRAM) =>
        /\ \A a \in RAMAddrs :
              ReadMBC1(m, heap, a) = Byte(RAMByte(m, heap, 0, a - 40960))
        /\ \A a \in RAMAddrs : \A v \in DataValues :
              LET w == WriteMBC1(m, heap, a, v)
              IN  /\ ~w.panic /\ w.m = m
                  /\ BankContents(w.m, w.heap) =
                        [BankContents(m, heap) EXCEPT ![1] = ArraySet(@, a - 40960, v)]
        /\ \A x \in {16384, 24575} : \A v \in RAMBankValues : \A a \in RAMAddrs :
              LET w == WriteMBC1(m, heap, x, v)
              IN  /\ w.m.MaxMemMode = SIXTEENMB_ROM_8KBRAM
                  /\ ReadMBC1(w.m, w.heap, a) = ReadMBC1(m, heap, a)

\* C5 witness: in 16/8 mode with bank 3 selected, a read of 0xA000 returned
\* the byte written to bank 0 while bank 3 holds another
C5_Witness ==
    /\ RAMOn /\ m.MaxMemMode = SIXTEENMB_ROM_8KBRAM
    /\ m.selectedRAMBank = 3
    /\ call.op = "Read" /\ call.addr = 40960 /\ call.val = 171
    /\ RAMByte(m, heap, 0, 0) = 171 /\ RAMByte(m, heap, 3, 0) = 0

\* C6: in 4 MB ROM / 32 KB RAM mode with RAM on, a write of x to 0xA000+o
\* is read back at 0xA000+o while the bank stays selected and changes byte o
\* of the selected bank only; selecting a bank changes no RAM byte; for
\* fresh RAM and for RAM installed by LoadRam.
C6_BankIsolation ==
    (RAMOn /\ m.MaxMemMode = FOURMB_ROM_32KBRAM) =>
        /\ \A a \in RAMAddrs :
              ReadMBC1(m, heap, a) = Byte(RAMByte(m, heap, m.selectedRAMBank, a - 40960))
        /\ \A a \in RAMAddrs : \A x \in DataValues :
              LET w == WriteMBC1(m, heap, a, x)
              IN  /\ ~w.panic /\ w.m = m
                  /\ ReadMBC1(w.m, w.heap, a) = Byte(x)
                  /\ BankContents(w.m, w.heap) =
                        [BankContents(m, heap) EXCEPT
                            ![m.selectedRAMBank + 1] = ArraySet(@, a - 40960, x)]
        /\ \A s \in {16384, 24575} : \A v \in RAMBankValues :
              LET w == WriteMBC1(m, heap, s, v)
              IN  /\ w.m = [m EXCEPT !.selectedRAMBank = v % 4]
                  /\ BankContents(w.m, w.heap) = BankContents(m, heap)

\* C6 witness: RAM installed by LoadRam, bank 2 selected and read at 0xA010
\* as 0xAB after a write in this mode, bank 3 holding 0x00 there
C6_Witness ==
    /\ RAMOn /\ m.MaxMemMode = FOURMB_ROM_32KBRAM
    /\ m.ramBanks[1].arr = 0
    /\ saved # << >> /\ saved[3].nz = ZeroArray(0).nz
    /\ m.selectedRAMBank = 2
    /\ call.op = "Read" /\ call.addr = 40976 /\ call.val = 171
    /\ RAMByte(m, heap, 3, 16) = 0 /\ RAMByte(m, heap, 0, 16) = 0

\* C7: a write to 0xA000..0xBFFF with RAM absent or disabled changes no RAM
\* byte (nor anything else), and opening or closing the gate changes no RAM
\* byte either, so what was there before the gate closed is read afterwards.
C7_DisabledWritesDiscarded ==
    /\ ~RAMOn =>
          \A a \in RAMAddrs : \A v \in DataValues :
             LET w == WriteMBC1(m, heap, a, v)
             IN  ~w.panic /\ w.heap = heap /\ w.m = m
    /\ \A g \in {0, 8191} : \A v \in GateValues :
          WriteMBC1(m, heap, g, v).heap = heap

\* C7 witness: the gate of a cartridge with RAM is closed, a write was made,
\* and RAM still holds a byte written before
C7_Witness ==
    /\ m.hasRAM /\ ~m.ramEnabled
    /\ call.op = "Write"
    /\ RAMByte(m, heap, 0, 0) = 171

\* C8: a write of v to 0x0000..0x1FFF sets ramEnabled to (v & 0x0F = 0x0A)
\* when the mode is 4 MB ROM / 32 KB RAM and RAM is present, and changes
\* nothing else; in the other mode, or without RAM, it changes nothing.
C8_GateWrite ==
    \A addr \in {0, 8191} : \A value \in GateValues :
        LET w == WriteMBC1(m, heap, addr, value)
        IN  /\ ~w.panic
            /\ w.heap = heap
            /\ IF m.MaxMemMode = FOURMB_ROM_32KBRAM /\ m.hasRAM
               THEN w.m = [m EXCEPT !.ramEnabled = (value % 16 = 10)]
               ELSE w.m = m

\* C8 witness: a gate write has closed the gate of a cartridge with RAM
C8_Witness ==
    /\ call.op = "Write"
    /\ m.hasRAM /\ ~m.ramEnabled
    /\ m.MaxMemMode = FOURMB_ROM_32KBRAM

\* C9: Read changes nothing: the registers, the mode and every RAM byte are
\* the same after it, so the same Read made again returns the same byte.
C9_ReadChangesNothing ==
    [][call'.op = "Read" =>
          /\ m' = m /\ heap' = heap /\ disk' = disk
          /\ (~call'.panic => ReadMBC1(m', heap', call'.addr) = Byte(call'.val))]_vars

\* C9 witness: RAM holding a written byte was read
C9_Witness ==
    /\ call.op = "Read" /\ call.addr = 49151 /\ call.val = 171
    /\ m.selectedROMBank # 0

\* C10: after a SaveRam without storage failure, LoadRam of the file on a
\* controller with RAM and battery (a fresh one included) returns no error
\* and leaves RAM banks 0..3 equal, bank by bank, to the banks saved.
C10_SaveLoadRoundTrip ==
    (m.hasRAM /\ m.hasBattery /\ saved # << >>) =>
        LET l == LoadRamMBC1(m, heap, disk, FALSE)
        IN  /\ l.err = "nil" /\ ~l.panic
            /\ Len(l.m.ramBanks) = 4
            /\ BankContents(l.m, l.heap) = saved
            /\ disk.data.len = 32768
            /\ \A b \in 0..3 : \A o \in {0, 16, 8191} :
                  ArrayGet(disk.data, b * 8192 + o) = ArrayGet(saved[b + 1], o)

\* C10 witness: a fresh controller (registers as constructed) has loaded a
\* save whose banks 2 and 3 differ, and holds those banks
C10_Witness ==
    /\ call.op = "LoadRam" /\ call.err = "nil"
    /\ m.hasRAM /\ m.ramBanks[1].arr = 0
    /\ m.selectedROMBank = 0 /\ m.selectedRAMBank = 0
    /\ m.MaxMemMode = SIXTEENMB_ROM_8KBRAM /\ m.ramEnabled
    /\ saved # << >> /\ BankContents(m, heap) = saved
    /\ RAMByte(m, heap, 2, 16) = 171 /\ RAMByte(m, heap, 3, 16) = 0

\* existing files of 0, 100 and 32769 bytes
OddFiles ==
    {[exists |-> TRUE, data |-> ZeroArray(0)],
     ShortFile,
     [exists |-> TRUE, data |-> ArraySet(ZeroArray(32769), 32768, 171)]}

\* C11: on a controller with RAM and battery, LoadRam of an existing file
\* whose length is not 32768 returns an error and leaves every register and
\* every RAM bank as it was: nothing of the file is applied.
C11_WrongLengthRejected ==
    (m.hasRAM /\ m.hasBattery) =>
        \A file \in OddFiles \cup {disk} :
            (file.exists /\ file.data.len # 32768) =>
                LET l == LoadRamMBC1(m, heap, file, FALSE)
                IN  /\ l.err # "nil" /\ ~l.panic
                    /\ l.m = m /\ l.heap = heap
                    /\ BankContents(l.m, l.heap) = BankContents(m, heap)

\* C11 witness: a controller holding a written byte and switched registers
\* has refused the partial file a failed save left behind
C11_Witness ==
    /\ call.op = "LoadRam" /\ call.err = "RAM file is not 32768 bytes!"
    /\ disk.exists /\ disk.data.len = 100
    /\ m.MaxMemMode = FOURMB_ROM_32KBRAM /\ m.selectedRAMBank = 3
    /\ RAMByte(m, heap, 3, 16) = 171

\* C12: on a controller with RAM and battery, LoadRam of a file that does
\* not exist returns no error and leaves RAM and registers as they were (all
\* zero on a fresh controller); any other failure to read the file is
\* returned as an error, RAM and registers again unchanged.
C12_MissingFileIsNoError ==
    (m.hasRAM /\ m.hasBattery) =>
        /\ \A ioError \in BOOLEAN :
              LoadRamMBC1(m, heap, NoFile, ioError) = Loaded(m, heap, "nil", FALSE)
        /\ \A file \in OddFiles \cup {disk} :
              file.exists =>
                  LET l == LoadRamMBC1(m, heap, file, TRUE)
                  IN  /\ l.err # "nil" /\ ~l.panic
                      /\ l.m = m /\ l.heap = heap
        /\ (call.op = "LoadRam" /\ ~disk.exists /\ heap = NewHeap(m.RAMSize)) =>
              \A b \in 0..3 : \A o \in {0, 16, 8191} : RAMByte(m, heap, b, o) = 0

\* C12 witness: a fresh controller has loaded from a file that does not
\* exist, without error
C12_Witness ==
    /\ call.op = "LoadRam" /\ call.err = "nil" /\ ~call.panic
    /\ ~disk.exists /\ m.hasRAM /\ m.hasBattery
    /\ heap = NewHeap(m.RAMSize)
    /\ m = NewMBC1(m.rom, m.ROMSize, m.RAMSize, m.hasBattery)

\* C13: every storage failure during SaveRam (creating the file, writing a
\* bank, flushing) comes back as an error: when SaveRam on a controller with
\* RAM and battery has returned nil, the file holds all four RAM banks, whole
\* and in order.
C13_SaveFailureReturned ==
    (call.op = "SaveRam" /\ call.err = "nil" /\ m.hasRAM /\ m.hasBattery) =>
        /\ disk.exists
        /\ disk.data = BanksImage(m, heap, 4)

\* C14: on a controller without RAM or without battery, SaveRam and LoadRam
\* touch no storage and return no error, whatever the storage would do and
\* whatever the file is, and leave RAM and registers as they were.
C14_NoBatteryNoStorage ==
    ~(m.hasRAM /\ m.hasBattery) =>
        /\ \A f \in SaveFailures :
              SaveRamMBC1(m, heap, disk, f) = [file |-> disk, err |-> "nil"]
        /\ \A file \in OddFiles \cup {disk, NoFile} : \A ioError \in BOOLEAN :
              LoadRamMBC1(m, heap, file, ioError) = Loaded(m, heap, "nil", FALSE)
        /\ ~disk.exists /\ saved = << >>
        /\ call.op \in {"SaveRam", "LoadRam"} => call.err = "nil" /\ ~call.panic

\* C14 witness: a controller with RAM but no battery, holding a written
\* byte, has returned from SaveRam and no file exists
C14_Witness ==
    /\ call.op = "SaveRam" /\ call.err = "nil"
    /\ m.hasRAM /\ ~m.hasBattery /\ ~disk.exists
    /\ m.MaxMemMode = FOURMB_ROM_32KBRAM
    /\ RAMByte(m, heap, 2, 16) = 171

\* the declared RAM sizes a cartridge header can carry, and one byte
DeclaredRAMSizes == {1, 2048, 8192, 32768}

\* controller mbc with arrays h is as C15 says a new one with RAM is
FreshWithRAM(mbc, h) ==
    /\ mbc.MaxMemMode = SIXTEENMB_ROM_8KBRAM
    /\ mbc.hasRAM /\ mbc.ramEnabled
    /\ mbc.selectedRAMBank = 0 /\ mbc.selectedROMBank = 0
    /\ Len(mbc.ramBanks) = 4
    /\ BankContents(mbc, h) = [i \in 1..4 |-> ZeroArray(8192)]
    /\ \A addr \in RAMAddrs :
          /\ ReadMBC1(mbc, h, addr) = Byte(0)
          /\ \A value \in {0, 171, 255} :
                LET w == WriteMBC1(mbc, h, addr, value)
                IN  /\ ~w.panic
                    /\ ReadMBC1(w.m, w.heap, addr) = Byte(value)

\* C15: a controller just constructed with ramSize > 0 is in 16/8 mode with
\* RAM present and enabled, both selectors 0 and exactly four all-zero RAM
\* banks; every read in 0xA000..0xBFFF returns 0x00, and a byte written to
\* 0xA000 + o is read back at once, with no enabling write before it.
C15_FreshControllerRAMOn ==
    call.op = "NewMBC1" =>
        /\ m.RAMSize > 0 => FreshWithRAM(m, heap)
        /\ \A ramSize \in DeclaredRAMSizes :
              FreshWithRAM(NewMBC1(m.rom, m.ROMSize, ramSize, m.hasBattery),
                           NewHeap(ramSize))

\* C15 witness: a controller has been constructed anew with RAM while a
\* full save file with a nonzero byte exists
C15_Witness ==
    /\ call.op = "NewMBC1" /\ m.RAMSize > 0
    /\ disk.exists /\ disk.data.len = 32768
    /\ ArrayGet(disk.data, 3 * 8192 + 16) = 171
    /\ heap = NewHeap(m.RAMSize)

\* every byte value written somewhere: register and data values
AnyValues == GateValues \cup ROMBankValues \cup RAMBankValues \cup ModeValues \cup DataValues

\* C16: a Read of 0x8000..0x9FFF or 0xC001..0xFFFF returns 0x00; a Write of
\* any value to 0x8000..0x9FFF or 0xC000..0xFFFF leaves both selectors,
\* ramEnabled, the mode and every RAM byte unchanged.
C16_OutOfWindowAbsorbed ==
    /\ \A addr \in {32768, 36864, 40959, 49153, 57344, 65535} :
          ReadMBC1(m, heap, addr) = Byte(0)
    /\ \A addr \in {32768, 36864, 40959, 49152, 49153, 65535} :
          \A value \in AnyValues :
              WriteMBC1(m, heap, addr, value) = Wrote(m, heap, FALSE)

\* C16 witness: with RAM on in 4/32 mode, bank 3 selected and its last byte
\* written, 0xC001 was read as 0x00
C16_Witness ==
    /\ call.op = "Read" /\ call.addr = 49153 /\ call.val = 0 /\ ~call.panic
    /\ RAMOn /\ m.MaxMemMode = FOURMB_ROM_32KBRAM /\ m.selectedRAMBank = 3
    /\ RAMByte(m, heap, 3, 8191) = 171

\* C17: ramEnabled implies RAM present; a controller constructed with
\* ramSize = 0 never has ramEnabled, whatever is written (0x0A to the gate in
\* 4/32 mode included), and each of its reads in 0xA000..0xC000 returns 0x00.
C17_NoRAMNeverEnabled ==
    /\ m.ramEnabled => m.hasRAM
    /\ m.RAMSize = 0 =>
          /\ ~m.hasRAM /\ ~m.ramEnabled
          /\ \A addr \in WriteAddrs : \A value \in ValuesFor(addr) :
                ~WriteMBC1(m, heap, addr, value).m.ramEnabled
          /\ \A addr \in RAMAddrs \cup {49152} :
                ReadMBC1(m, heap, addr) = Byte(0)

\* C17 witness: a controller without RAM, switched to 4/32 mode and written
\* to, has read 0xC000 as 0x00
C17_Witness ==
    /\ m.RAMSize = 0 /\ m.MaxMemMode = FOURMB_ROM_32KBRAM
    /\ m.selectedRAMBank = 3
    /\ call.op = "Read" /\ call.addr = 49152 /\ call.val = 0 /\ ~call.panic

\* C18: a Write changes ramEnabled only if it goes to 0x0000..0x1FFF while
\* the mode is 4/32, so that in 16/8 mode no write (0x0A to the gate
\* included) that keeps the mode opens or closes the gate; while the gate is
\* closed, reads in 0xA000..0xC000 return 0x00.
C18_GateOnlyIn432 ==
    /\ \A addr \in WriteAddrs : \A value \in ValuesFor(addr) :
          LET w == WriteMBC1(m, heap, addr, value)
          IN  /\ w.m.ramEnabled # m.ramEnabled =>
                    addr <= 8191 /\ m.MaxMemMode = FOURMB_ROM_32KBRAM
              /\ (m.MaxMemMode = SIXTEENMB_ROM_8KBRAM /\ ~m.ramEnabled
                     /\ w.m.MaxMemMode = SIXTEENMB_ROM_8KBRAM) =>
                    /\ ~w.m.ramEnabled
                    /\ \A a \in RAMAddrs \cup {49152} :
                          ReadMBC1(w.m, w.heap, a) = Byte(0)
    /\ (m.hasRAM /\ ~m.ramEnabled) =>
          \A a \in RAMAddrs \cup {49152} : ReadMBC1(m, heap, a) = Byte(0)

\* C18 witness: the gate of a cartridge with RAM was closed, the mode is
\* back to 16/8, and a written byte of bank 0 has been read as 0x00
C18_Witness ==
    /\ m.hasRAM /\ ~m.ramEnabled /\ m.MaxMemMode = SIXTEENMB_ROM_8KBRAM
    /\ call.op = "Read" /\ call.addr = 49151 /\ call.val = 0
    /\ RAMByte(m, heap, 0, 8191) = 171

\* C19: a write of v to 0x4000..0x5FFF sets selectedRAMBank to v & 0x03 in
\* either mode; in 16/8 mode RAM accesses go on using bank 0, and after a
\* switch to 4/32 mode with no write to 0x4000..0x5FFF in between they use
\* bank v & 0x03; a mode write changes neither selector nor ramEnabled.
C19_RAMBankLatched ==
    /\ \A x \in {16384, 24575} : \A v \in RAMBankValues :
          LET w1 == WriteMBC1(m, heap, x, v)
              w2 == WriteMBC1(w1.m, w1.heap, 24576, 171)
          IN  /\ w1 = Wrote([m EXCEPT !.selectedRAMBank = v % 4], heap, FALSE)
              /\ (RAMOn /\ m.MaxMemMode = SIXTEENMB_ROM_8KBRAM) =>
                    \A a \in RAMAddrs :
                        /\ ReadMBC1(w1.m, w1.heap, a) = Byte(RAMByte(m, heap, 0, a - 40960))
                        /\ ReadMBC1(w2.m, w2.heap, a) = Byte(RAMByte(m, heap, v % 4, a - 40960))
                        /\ \A d \in DataValues :
                              LET w3 == WriteMBC1(w2.m, w2.heap, a, d)
                              IN  /\ ~w3.panic
                                  /\ BankContents(w3.m, w3.heap) =
                                        [BankContents(m, heap) EXCEPT
                                            ![(v % 4) + 1] = ArraySet(@, a - 40960, d)]
    /\ \A addr \in WriteAddrs : \A value \in ValuesFor(addr) :
          (addr < 16384 \/ addr > 24575) =>
              WriteMBC1(m, heap, addr, value).m.selectedRAMBank = m.selectedRAMBank
    /\ \A x \in {24576, 32767} : \A v \in ModeValues \cup {0, 1} :
          WriteMBC1(m, heap, x, v) =
              Wrote([m EXCEPT !.MaxMemMode = IF v % 2 = 1 THEN FOURMB_ROM_32KBRAM
                                             ELSE SIXTEENMB_ROM_8KBRAM],
                    heap, FALSE)

\* C19 witness: in 4/32 mode with bank 2 selected, a byte written to bank 2
\* has been read back while bank 0 holds 0x00 there
C19_Witness ==
    /\ RAMOn /\ m.MaxMemMode = FOURMB_ROM_32KBRAM /\ m.selectedRAMBank = 2
    /\ call.op = "Read" /\ call.addr = 40960 /\ call.val = 171
    /\ RAMByte(m, heap, 2, 0) = 171 /\ RAMByte(m, heap, 0, 0) = 0

\* C20: a write to a register window changes at most the register of that
\* window and no RAM byte; a write to 0xA000..0xBFFF with RAM on sets byte
\* addr - 0xA000 of the bank the mode rule chooses and changes no register
\* and no other RAM byte.
C20_WriteChangesOneComponent ==
    /\ \A addr \in {a \in WriteAddrs : a <= 32767} : \A value \in ValuesFor(addr) :
          LET w == WriteMBC1(m, heap, addr, value)
          IN  /\ ~w.panic /\ w.heap = heap
              /\ w.m = IF addr <= 8191
                          THEN [m EXCEPT !.ramEnabled = w.m.ramEnabled]
                       ELSE IF addr <= 16383
                          THEN [m EXCEPT !.selectedROMBank = w.m.selectedROMBank]
                       ELSE IF addr <= 24575
                          THEN [m EXCEPT !.selectedRAMBank = w.m.selectedRAMBank]
                       ELSE [m EXCEPT !.MaxMemMode = w.m.MaxMemMode]
    /\ RAMOn =>
          \A addr \in RAMAddrs : \A value \in DataValues \cup {255} :
              LET w == WriteMBC1(m, heap, addr, value)
                  b == IF m.MaxMemMode = FOURMB_ROM_32KBRAM
                       THEN m.selectedRAMBank ELSE 0
              IN  /\ ~w.panic /\ w.m = m
                  /\ BankContents(w.m, w.heap) =
                        [BankContents(m, heap) EXCEPT
                            ![b + 1] = ArraySet(@, addr - 40960, value)]

\* C20 witness: after a write, every register differs from its initial
\* value but the gate, and the last byte of bank 3 is the only nonzero one
C20_Witness ==
    /\ call.op = "Write" /\ ~call.panic
    /\ RAMOn /\ m.MaxMemMode = FOURMB_ROM_32KBRAM
    /\ m.selectedRAMBank = 3 /\ m.selectedROMBank = 11
    /\ RAMByte(m, heap, 3, 8191) = 171 /\ Dirty(heap) = 1

====
